---- MODULE Spec2Model ----
(***************************************************************************)
(* Model of scripts/aggregate.py: commit history -> check-in events ->      *)
(* dedupe by (date, user) -> daily / per-user counts -> report files.       *)
(*                                                                         *)
(* Strings are sequences of tokens.  A token stands for a fixed piece of    *)
(* text; the regular expressions of the script are evaluated token by       *)
(* token, with the character class of each token written out below.         *)
(***************************************************************************)
EXTENDS Integers, Sequences, FiniteSets, TLC

VARIABLES
    raw,          \* git_log: the chunks of the decoded `git log` output
    idx,          \* git_log: number of chunks the generator has consumed
    pc,           \* position of the running call
    prefer,       \* dedupe: the policy argument
    rows_all,     \* extract_checkins: rows / main: rows_all
    unique_rows,  \* main: unique_rows
    duplicates,   \* main: duplicates
    stdout,       \* main: the ::warning:: lines printed so far
    daily,        \* main: daily   (Counter)
    per_user,     \* main: per_user (Counter)
    files,        \* the five output files
    stderr,       \* __main__: the error line, <<>> when none
    exit_code,    \* __main__: -1 while running, 0 normal end, 1 sys.exit(1)
    an,           \* canonical_user: author_name
    ae,           \* canonical_user: author_email
    ret           \* canonical_user: the returned string

vars == <<raw, idx, pc, prefer, rows_all, unique_rows, duplicates, stdout,
          daily, per_user, files, stderr, exit_code, an, ae, ret>>

----------------------------------------------------------------------------
(* Bounds *)

MaxCommits == 3      \* chunks in the git log of a whole run
MaxRows == 3         \* rows handed to dedupe
MaxExtract == 2      \* chunks in the git log of an extraction
MaxBodyLen == 3      \* tokens in an enumerated commit body
MaxAddrLen == 4      \* tokens in an enumerated author_email
MaxNameLen == 3      \* tokens in an enumerated author_name

----------------------------------------------------------------------------
(* Sequences *)

SeqsUpTo(S, n) == UNION {[1..k -> S] : k \in 0..n}

Range(s) == {s[i] : i \in 1..Len(s)}

RECURSIVE LexLess(_, _)
\* Python's < on two strings / tuples given as sequences of integers
LexLess(a, b) ==
    IF a = <<>> THEN b # <<>>
    ELSE IF b = <<>> THEN FALSE
    ELSE IF Head(a) < Head(b) THEN TRUE
    ELSE IF Head(a) > Head(b) THEN FALSE
    ELSE LexLess(Tail(a), Tail(b))

RECURSIVE InsertStable(_, _, _)
\* put item x behind every item of the sorted sequence s that does not have
\* to follow it: ascending, behind the items with key <= x.key; descending
\* (reverse=True), behind the items with key >= x.key
InsertStable(s, x, reverse) ==
    IF s = <<>> THEN <<x>>
    ELSE IF (IF reverse THEN LexLess(Head(s).key, x.key)
                        ELSE LexLess(x.key, Head(s).key))
         THEN <<x>> \o s
         ELSE <<Head(s)>> \o InsertStable(Tail(s), x, reverse)

RECURSIVE SortItems(_, _, _)
SortItems(items, acc, reverse) ==
    IF items = <<>> THEN acc
    ELSE SortItems(Tail(items), InsertStable(acc, Head(items), reverse), reverse)

\* sorted(iterable, key=..., reverse=...) over items [key, val]: a stable sort
sorted(items, reverse) ==
    LET s == SortItems(items, <<>>, reverse)
    IN  [i \in 1..Len(s) |-> s[i].val]

----------------------------------------------------------------------------
(* Timestamps.  An author_iso string "2025-08-DDTHH:00:00+OO:00" is the      *)
(* record [ok |-> TRUE, day |-> DD, hour |-> HH, off |-> +-OO]; a string     *)
(* that is no ISO 8601 timestamp is BadIso.                                 *)

Iso(d, h, o) == [ok |-> TRUE, day |-> d, hour |-> h, off |-> o]

BadIso == [ok |-> FALSE, day |-> 0, hour |-> 0, off |-> 0]

Abs(n) == IF n < 0 THEN 0 - n ELSE n

\* the string as character codes, as far as two such strings can differ:
\* day, hour, the sign character ('+' is 43, '-' is 45), the offset digits;
\* a string that is no timestamp starts with a letter, above every digit
IsoString(iso) ==
    IF iso.ok
    THEN <<iso.day, iso.hour, IF iso.off < 0 THEN 45 ELSE 43, Abs(iso.off)>>
    ELSE <<110>>

\* the instant of a timestamp, in hours
Instant(iso) == iso.day * 24 + iso.hour - iso.off

JstOffset == 9

\* jst_date_from_iso: the calendar day of the instant in Asia/Tokyo
jst_date_from_iso(iso) == (Instant(iso) + JstOffset) \div 24

----------------------------------------------------------------------------
(* Author strings.  Tokens of an author_email or author_name:               *)
(*   "a" a lower-case letter    "A" an upper-case letter    "1" a digit     *)
(*   "+"   "@"   " " a blank    "-"                                         *)
(*   "@N" the text "@users.noreply.github.com"                              *)
(*   "unknown" the literal fallback                                         *)

AddrTokens == {"a", "A", "1", "+", "@", "@N", " "}

NameTokens == {"A", " "}

\* str.lower()
lower(s) == [i \in 1..Len(s) |-> IF s[i] = "A" THEN "a" ELSE s[i]]

RECURSIVE lstrip(_)
lstrip(s) == IF s # <<>> /\ Head(s) = " " THEN lstrip(Tail(s)) ELSE s

RECURSIVE rstrip(_)
rstrip(s) ==
    IF s # <<>> /\ s[Len(s)] = " " THEN rstrip(SubSeq(s, 1, Len(s) - 1)) ELSE s

\* str.strip()
strip(s) == rstrip(lstrip(s))

\* the class [a-z0-9-]
LoginTokens == {"a", "1", "-"}

RECURSIVE LeadingDigits(_)
\* what \d+ consumes at the start of s
LeadingDigits(s) ==
    IF s # <<>> /\ Head(s) = "1" THEN 1 + LeadingDigits(Tail(s)) ELSE 0

\* re.match(r"\d+\+([a-z0-9-]+)@users\.noreply\.github\.com$", s): group 1,
\* or <<>> when there is no match (a match never has an empty group)
MatchNumberedNoreply(s) ==
    LET n == Len(s)
        p == LeadingDigits(s) + 1
    IN  IF p >= 2 /\ p + 1 <= n - 1
        THEN IF /\ s[p] = "+"
                /\ s[n] = "@N"
                /\ \A i \in (p + 1)..(n - 1) : s[i] \in LoginTokens
             THEN SubSeq(s, p + 1, n - 1)
             ELSE <<>>
        ELSE <<>>

\* re.match(r"([a-z0-9-]+)@users\.noreply\.github\.com$", s)
MatchNoreply(s) ==
    LET n == Len(s)
    IN  IF n >= 2
        THEN IF s[n] = "@N" /\ \A i \in 1..(n - 1) : s[i] \in LoginTokens
             THEN SubSeq(s, 1, n - 1)
             ELSE <<>>
        ELSE <<>>

\* "@" in s
HasAt(s) == \E i \in 1..Len(s) : s[i] \in {"@", "@N"}

\* s.split("@", 1)[0]
BeforeFirstAt(s) ==
    LET i == CHOOSE k \in 1..Len(s) :
                 /\ s[k] \in {"@", "@N"}
                 /\ \A j \in 1..(k - 1) : s[j] \notin {"@", "@N"}
    IN  SubSeq(s, 1, i - 1)

RECURSIVE HyphenateBlanks(_)
\* re.sub(r"\s+", "-", s)
HyphenateBlanks(s) ==
    IF s = <<>> THEN <<>>
    ELSE IF Head(s) = " " THEN <<"-">> \o HyphenateBlanks(lstrip(s))
    ELSE <<Head(s)>> \o HyphenateBlanks(Tail(s))

canonical_user(author_name, author_email) ==
    LET e == lower(strip(author_email))
        name == HyphenateBlanks(lower(strip(author_name)))
    IN  IF e # <<>> /\ MatchNumberedNoreply(e) # <<>> THEN MatchNumberedNoreply(e)
        ELSE IF e # <<>> /\ MatchNoreply(e) # <<>> THEN MatchNoreply(e)
        ELSE IF e # <<>> /\ HasAt(e) THEN BeforeFirstAt(e)
        ELSE IF name # <<>> THEN name
        ELSE <<"unknown">>

\* the characters of a token, as codes
TokenChars(t) ==
    CASE t = " " -> <<32>>
      [] t = "+" -> <<43>>
      [] t = "-" -> <<45>>
      [] t = "1" -> <<49>>
      [] t = "@" -> <<64>>
      [] t = "A" -> <<65>>
      [] t = "a" -> <<97>>
      [] t = "@N" -> <<64, 117>>
      [] t = "unknown" -> <<117, 110, 107, 110, 111, 119, 110>>

RECURSIVE StringChars(_)
StringChars(s) ==
    IF s = <<>> THEN <<>> ELSE TokenChars(Head(s)) \o StringChars(Tail(s))

----------------------------------------------------------------------------
(* Commit messages.  Tokens of a body:                                      *)
(*   "K"  the text "Check-In-Date:"                                         *)
(*   "D1" "D2" a text of the shape \d{4}-\d{2}-\d{2}                         *)
(*   "X"  a text without blanks that is neither of these, e.g. "2025-1-1"   *)
(*   "sp" a blank or tab      "nl" a line feed                              *)
(* Tokens of a subject:                                                     *)
(*   "c" the text "check-in"   "C" the same in another case, "Check-In"     *)
(*   "w" letters or digits     ":" punctuation     "sp" a blank             *)

BodyTokens == {"K", "D1", "D2", "X", "sp", "nl"}

DateTokens == {"D1", "D2"}

\* the calendar day a date text names
DateOf(t) == IF t = "D1" THEN 1 ELSE 2

RECURSIVE SkipWhile(_, _, _)
\* the first position >= i of s whose token is not in S (Len(s)+1 if none)
SkipWhile(s, i, S) ==
    IF i > Len(s) THEN i
    ELSE IF s[i] \in S THEN SkipWhile(s, i + 1, S) ELSE i

\* DATE_RE matched with its ^ at position i of body: the position of the
\* captured date, or 0.  ^ and $ are line anchors (re.M); \s* takes blanks
\* and line feeds alike
DateReAt(body, i) ==
    LET j == SkipWhile(body, i + 1, {"sp", "nl"})
        k == SkipWhile(body, j + 1, {"sp"})
        AtLineStart == IF i = 1 THEN TRUE ELSE body[i - 1] = "nl"
        AtDate == IF j <= Len(body) THEN body[j] \in DateTokens ELSE FALSE
        AtLineEnd == IF k > Len(body) THEN TRUE ELSE body[k] = "nl"
    IN  IF AtLineStart /\ body[i] = "K" /\ AtDate /\ AtLineEnd THEN j ELSE 0

\* DATE_RE.search(body): the position of group 1 in the leftmost match, or 0
DATE_RE_search(body) ==
    LET starts == {i \in 1..Len(body) : DateReAt(body, i) # 0}
    IN  IF starts = {} THEN 0
        ELSE DateReAt(body, CHOOSE i \in starts : \A k \in starts : i <= k)

\* SUBJECT_RE.search(subj) is not None: ^check-in\b, ignoring case
SUBJECT_RE_search(subj) ==
    /\ subj # <<>>
    /\ subj[1] \in {"c", "C"}
    /\ IF Len(subj) = 1 THEN TRUE ELSE subj[2] \notin {"w", "c", "C"}

----------------------------------------------------------------------------
(* git_log and extract_checkins.  A chunk of the log is                     *)
(*   [nf, cid, aiso, an, ae, subj, body]                                    *)
(* nf is the number of fields rec.split("\x1f") gives: 0 for the empty      *)
(* chunk, 6 for a record; the other fields are read only when nf = 6.       *)

\* has_trailer or looks_checkin
Classified(c) == DATE_RE_search(c.body) # 0 \/ SUBJECT_RE_search(c.subj)

\* jst_date_from_iso raises ValueError: the record has no trailer and its
\* author_iso is no timestamp
DateRaises(c) == DATE_RE_search(c.body) = 0 /\ ~c.aiso.ok

\* m.group(1) if m else jst_date_from_iso(aiso)
ResolveDate(c) ==
    LET m == DATE_RE_search(c.body)
    IN  IF m # 0 THEN DateOf(c.body[m]) ELSE jst_date_from_iso(c.aiso)

\* the dict appended to rows
Row(c) ==
    [commit |-> c.cid,
     date |-> ResolveDate(c),
     user |-> canonical_user(c.an, c.ae),
     author_iso |-> c.aiso,
     author_name |-> c.an,
     author_email |-> c.ae,
     subject |-> c.subj]

\* the message of the ValueError of a wrong number of fields
UnpackError(nf) ==
    IF nf < 6 THEN <<"ERROR", "not enough values to unpack">>
    ELSE <<"ERROR", "too many values to unpack">>

IsoformatError == <<"ERROR", "Invalid isoformat string">>

----------------------------------------------------------------------------
(* dedupe *)

PREFER_ON_DUP == "earliest"

\* a dedupe that keys the slots on the user alone
KeyUserOnly(r) == <<r.user>>

Key(r) == <<r.date, r.user>>

RECURSIVE DedupeWalkDropsLosers(_, _, _)
\* a walk that forgets the rows it does not choose
DedupeWalkDropsLosers(rs, chosen, dups) ==
    IF rs = <<>> THEN [unique |-> chosen, dups |-> dups]
    ELSE IF \E i \in 1..Len(chosen) : Key(chosen[i]) = Key(Head(rs))
         THEN DedupeWalkDropsLosers(Tail(rs), chosen, dups)
         ELSE DedupeWalkDropsLosers(Tail(rs), Append(chosen, Head(rs)), dups)

RECURSIVE DedupeWalk(_, _, _)
\* the loop over sorted_rows; chosen is the dict, kept as its values in
\* insertion order
DedupeWalk(rs, chosen, dups) ==
    IF rs = <<>> THEN [unique |-> chosen, dups |-> dups]
    ELSE IF \E i \in 1..Len(chosen) : Key(chosen[i]) = Key(Head(rs))
         THEN DedupeWalk(Tail(rs), chosen, Append(dups, Head(rs)))
         ELSE DedupeWalk(Tail(rs), Append(chosen, Head(rs)), dups)

\* sorted(rows, key=lambda r: r["author_iso"], reverse=reverse)
SortByAuthorIso(rows, reverse) ==
    sorted([i \in 1..Len(rows) |->
               [key |-> IsoString(rows[i].author_iso), val |-> rows[i]]],
           reverse)

dedupe(rows, pref) ==
    IF rows = <<>> THEN [unique |-> <<>>, dups |-> <<>>]
    ELSE DedupeWalk(SortByAuthorIso(rows, pref = "latest"), <<>>, <<>>)

----------------------------------------------------------------------------
(* aggregate *)

\* Counter()
EmptyCounter == <<>>

\* counter[k] = 1
IncrementSetsOne(counter, k) ==
    IF k \in DOMAIN counter THEN [counter EXCEPT ![k] = 1]
    ELSE counter @@ (k :> 1)

\* counter[k] += 1
Increment(counter, k) ==
    IF k \in DOMAIN counter THEN [counter EXCEPT ![k] = @ + 1]
    ELSE counter @@ (k :> 1)

RECURSIVE AggregateLoop(_, _, _)
AggregateLoop(rows, d, u) ==
    IF rows = <<>> THEN [daily |-> d, per_user |-> u]
    ELSE AggregateLoop(Tail(rows),
                       Increment(d, Head(rows).date),
                       Increment(u, Head(rows).user))

aggregate(rows) == AggregateLoop(rows, EmptyCounter, EmptyCounter)

----------------------------------------------------------------------------
(* write_data, make_heatmap_svg, write_assets *)

FileNames == {"attendance.csv", "daily_counts.json", "per_user.json",
              "duplicates.csv", "heatmap.svg"}

Written(content) == [state |-> "written", content |-> content]

\* rows of attendance.csv: sorted by (date, user, commit)
AttendanceRows(rows) ==
    LET s == sorted([i \in 1..Len(rows) |->
                        [key |-> <<rows[i].date>> \o StringChars(rows[i].user)
                                     \o <<0, rows[i].commit>>,
                         val |-> rows[i]]], FALSE)
    IN  [i \in 1..Len(s) |->
            <<s[i].date, s[i].user, s[i].commit, s[i].author_name,
              s[i].author_email>>]

\* rows of duplicates.csv: sorted by (date, user, author_iso, commit)
DuplicateRows(dups) ==
    LET s == sorted([i \in 1..Len(dups) |->
                        [key |-> <<dups[i].date>> \o StringChars(dups[i].user)
                                     \o <<0>> \o IsoString(dups[i].author_iso)
                                     \o <<0, dups[i].commit>>,
                         val |-> dups[i]]], FALSE)
    IN  [i \in 1..Len(s) |->
            <<s[i].date, s[i].user, s[i].commit, s[i].author_name,
              s[i].author_email, s[i].author_iso>>]

HeatmapDays == 365

color(v) ==
    IF v = 0 THEN "#ebedf0"
    ELSE IF v = 1 THEN "#c6e48b"
    ELSE IF v = 2 THEN "#7bc96f"
    ELSE "#196127"

\* daily.get(d, 0)
Get(counter, k) == IF k \in DOMAIN counter THEN counter[k] ELSE 0

\* one cell per day of the window that ends today
make_heatmap_svg(d, days, today) ==
    [day \in (today - days + 1)..today |->
        [v |-> Get(d, day), fill |-> color(Get(d, day))]]

\* the days "today" is drawn from: inside and beyond the days of the log
Todays == {3, 400}

----------------------------------------------------------------------------
(* The inputs *)

Chunk(nf, aiso, author, subj, body) ==
    [nf |-> nf, cid |-> 0, aiso |-> aiso, an |-> author[1], ae |-> author[2],
     subj |-> subj, body |-> body]

\* the chunk that is the empty string, and chunks of five and seven fields
EmptyChunk == Chunk(0, BadIso, <<<<>>, <<>>>>, <<>>, <<>>)

ShortChunk == Chunk(5, BadIso, <<<<>>, <<>>>>, <<>>, <<>>)

LongChunk == Chunk(7, BadIso, <<<<>>, <<>>>>, <<>>, <<>>)

\* <name, address> pairs: a plain address, a numbered noreply address of the
\* same login, a name without address, an address that starts with "@"
AuthorPlain == <<<<"A">>, <<"A", "@", "a">>>>

AuthorNoreply == <<<<>>, <<"1", "+", "a", "@N">>>>

AuthorNameOnly == <<<<"A", " ", "A">>, <<>>>>

AuthorAtFirst == <<<<"A">>, <<"@", "a">>>>

SubjectCheckIn == <<"C", "sp", "w">>

SubjectOther == <<"w", "sp", "c">>

\* the commits of a whole run
RunChunks ==
    {EmptyChunk, ShortChunk, LongChunk,
     Chunk(6, Iso(1, 10, 9), AuthorPlain, SubjectCheckIn, <<>>),
     Chunk(6, Iso(1, 5, 0), AuthorNoreply, SubjectCheckIn, <<>>),
     Chunk(6, Iso(1, 23, 0), AuthorNameOnly, SubjectOther, <<"K", "sp", "D1">>),
     Chunk(6, Iso(1, 10, 9), AuthorPlain, SubjectOther, <<"X">>),
     Chunk(6, BadIso, AuthorPlain, SubjectCheckIn, <<"K", "sp", "X">>)}

\* the commits of an extraction
ExtractChunks ==
    {EmptyChunk, ShortChunk} \cup
    {Chunk(6, i, a, s, b) :
        i \in {Iso(1, 23, 0), BadIso},
        a \in {AuthorPlain, AuthorAtFirst},
        s \in {SubjectCheckIn, SubjectOther},
        b \in {<<>>, <<"K", "sp", "D1">>, <<"K", "nl", "D2">>, <<"K", "sp", "X">>}}

\* single commits with every body and a choice of subjects
BodyChunks ==
    {Chunk(6, i, AuthorPlain, s, b) :
        i \in {Iso(1, 23, 0), Iso(1, 10, 9)},
        s \in {SubjectCheckIn, <<"c", "w">>, <<"c">>},
        b \in SeqsUpTo(BodyTokens, MaxBodyLen)}

\* a log: the chunks in the order of the output, the commit id of a chunk
\* being its place in the log
Logs(S, n) ==
    {[i \in 1..Len(l) |-> [l[i] EXCEPT !.cid = i]] : l \in SeqsUpTo(S, n)}

\* rows as extract_checkins can return them
DedupeIsos == {Iso(1, 10, 9), Iso(1, 5, 0), Iso(1, 1, 0)}

DedupeUsers == {<<"a">>, <<"a", "-", "a">>}

DedupeDates == {1, 2}

DedupeRows ==
    {[commit |-> 0, date |-> d, user |-> u, author_iso |-> i,
      author_name |-> <<>>, author_email |-> <<>>, subject |-> <<>>] :
        d \in DedupeDates, u \in DedupeUsers, i \in DedupeIsos}

RowLists(n) ==
    {[i \in 1..Len(l) |-> [l[i] EXCEPT !.commit = i]] :
        l \in SeqsUpTo(DedupeRows, n)}

NoFiles(prior) == [f \in FileNames |-> [state |-> prior, content |-> <<>>]]

----------------------------------------------------------------------------
(* extract_checkins, one turn of its loop over git_log() per step *)

Extracting == pc = "extract" /\ idx < Len(raw)

\* the exception leaves main and reaches the handler of __main__
Abort(message) ==
    /\ pc' = "failed"
    /\ stderr' = message
    /\ exit_code' = 1
    /\ rows_all' = <<>>
    /\ UNCHANGED <<raw, idx, prefer, unique_rows, duplicates, stdout, daily,
                   per_user, files, an, ae, ret>>

\* if not rec: continue
ExtractSkipEmpty ==
    /\ Extracting
    /\ raw[idx + 1].nf = 0
    /\ idx' = idx + 1
    /\ UNCHANGED <<raw, pc, prefer, rows_all, unique_rows, duplicates, stdout,
                   daily, per_user, files, stderr, exit_code, an, ae, ret>>

\* a loop that passes over a chunk of a wrong number of fields
ExtractUnpackSkips ==
    /\ Extracting
    /\ raw[idx + 1].nf \notin {0, 6}
    /\ idx' = idx + 1
    /\ UNCHANGED <<raw, pc, prefer, rows_all, unique_rows, duplicates, stdout,
                   daily, per_user, files, stderr, exit_code, an, ae, ret>>

\* cid, aiso, an, ae, subj, body = rec.split("\x1f") raises ValueError
ExtractUnpackFails ==
    /\ Extracting
    /\ raw[idx + 1].nf \notin {0, 6}
    /\ Abort(UnpackError(raw[idx + 1].nf))

\* if not (has_trailer or looks_checkin): continue
ExtractDrop ==
    /\ Extracting
    /\ raw[idx + 1].nf = 6
    /\ ~Classified(raw[idx + 1])
    /\ idx' = idx + 1
    /\ UNCHANGED <<raw, pc, prefer, rows_all, unique_rows, duplicates, stdout,
                   daily, per_user, files, stderr, exit_code, an, ae, ret>>

\* jst_date_from_iso(aiso) raises ValueError
ExtractDateFails ==
    /\ Extracting
    /\ raw[idx + 1].nf = 6
    /\ Classified(raw[idx + 1])
    /\ DateRaises(raw[idx + 1])
    /\ Abort(IsoformatError)

\* rows.append({...})
ExtractAppend ==
    /\ Extracting
    /\ raw[idx + 1].nf = 6
    /\ Classified(raw[idx + 1])
    /\ ~DateRaises(raw[idx + 1])
    /\ rows_all' = Append(rows_all, Row(raw[idx + 1]))
    /\ idx' = idx + 1
    /\ UNCHANGED <<raw, pc, prefer, unique_rows, duplicates, stdout, daily,
                   per_user, files, stderr, exit_code, an, ae, ret>>

\* return rows
ExtractReturn ==
    /\ pc = "extract"
    /\ idx = Len(raw)
    /\ pc' = "dedupe"
    /\ UNCHANGED <<raw, idx, prefer, rows_all, unique_rows, duplicates, stdout,
                   daily, per_user, files, stderr, exit_code, an, ae, ret>>

ExtractNext ==
    \/ ExtractSkipEmpty
    \/ ExtractUnpackFails
    \/ ExtractDrop
    \/ ExtractDateFails
    \/ ExtractAppend
    \/ ExtractReturn

----------------------------------------------------------------------------
(* main, after extract_checkins *)

\* the other policy: a duplicate is a validation error that ends the run
MainDedupeFatal ==
    /\ pc = "dedupe"
    /\ IF dedupe(rows_all, prefer).dups # <<>>
       THEN Abort(<<"ERROR", "duplicate check-in">>)
       ELSE /\ unique_rows' = dedupe(rows_all, prefer).unique
            /\ duplicates' = dedupe(rows_all, prefer).dups
            /\ pc' = "warn"
            /\ UNCHANGED <<raw, idx, prefer, rows_all, stdout, daily, per_user,
                           files, stderr, exit_code, an, ae, ret>>

\* unique_rows, duplicates = dedupe(rows_all, prefer=PREFER_ON_DUP)
MainDedupe ==
    /\ pc = "dedupe"
    /\ unique_rows' = dedupe(rows_all, prefer).unique
    /\ duplicates' = dedupe(rows_all, prefer).dups
    /\ pc' = "warn"
    /\ UNCHANGED <<raw, idx, prefer, rows_all, stdout, daily, per_user, files,
                   stderr, exit_code, an, ae, ret>>

\* the line print() writes for a duplicate
Warning(d) == <<"::warning::Duplicate check-in", d.date, d.user, d.commit>>

\* for d in duplicates: print(...)
MainWarn ==
    /\ pc = "warn"
    /\ Len(stdout) < Len(duplicates)
    /\ stdout' = Append(stdout, Warning(duplicates[Len(stdout) + 1]))
    /\ UNCHANGED <<raw, idx, pc, prefer, rows_all, unique_rows, duplicates,
                   daily, per_user, files, stderr, exit_code, an, ae, ret>>

\* daily, per_user = aggregate(unique_rows)
MainAggregate ==
    /\ pc = "warn"
    /\ Len(stdout) = Len(duplicates)
    /\ daily' = aggregate(unique_rows).daily
    /\ per_user' = aggregate(unique_rows).per_user
    /\ pc' = "write_attendance"
    /\ UNCHANGED <<raw, idx, prefer, rows_all, unique_rows, duplicates, stdout,
                   files, stderr, exit_code, an, ae, ret>>

WriteFile(at, name, content, next) ==
    /\ pc = at
    /\ files' = [files EXCEPT ![name] = Written(content)]
    /\ pc' = next
    /\ UNCHANGED <<raw, idx, prefer, rows_all, unique_rows, duplicates, stdout,
                   daily, per_user, stderr, an, ae, ret>>

WriteAttendance ==
    /\ WriteFile("write_attendance", "attendance.csv",
                 AttendanceRows(unique_rows), "write_daily")
    /\ UNCHANGED exit_code

WriteDaily ==
    /\ WriteFile("write_daily", "daily_counts.json", daily, "write_per_user")
    /\ UNCHANGED exit_code

WritePerUser ==
    /\ WriteFile("write_per_user", "per_user.json", per_user, "write_duplicates")
    /\ UNCHANGED exit_code

WriteDuplicates ==
    /\ WriteFile("write_duplicates", "duplicates.csv",
                 DuplicateRows(duplicates), "write_assets")
    /\ UNCHANGED exit_code

\* write_assets(daily), the last statement of main: the process ends
WriteAssets ==
    /\ \E today \in Todays :
          WriteFile("write_assets", "heatmap.svg",
                    make_heatmap_svg(daily, HeatmapDays, today), "done")
    /\ exit_code' = 0

----------------------------------------------------------------------------
(* Specifications *)

\* a run of the script
Init ==
    /\ raw \in Logs(RunChunks, MaxCommits)
    /\ idx = 0
    /\ pc = "extract"
    /\ prefer = PREFER_ON_DUP
    /\ rows_all = <<>>
    /\ unique_rows = <<>>
    /\ duplicates = <<>>
    /\ stdout = <<>>
    /\ daily = EmptyCounter
    /\ per_user = EmptyCounter
    /\ \E prior \in {"absent", "old"} : files = NoFiles(prior)
    /\ stderr = <<>>
    /\ exit_code = -1
    /\ an = <<>>
    /\ ae = <<>>
    /\ ret = <<>>

Next ==
    \/ ExtractSkipEmpty
    \/ ExtractUnpackFails
    \/ ExtractDrop
    \/ ExtractDateFails
    \/ ExtractAppend
    \/ ExtractReturn
    \/ MainDedupe
    \/ MainWarn
    \/ MainAggregate
    \/ WriteAttendance
    \/ WriteDaily
    \/ WritePerUser
    \/ WriteDuplicates
    \/ WriteAssets

Spec == Init /\ [][Next]_vars

\* extract_checkins on its own
InitExtract ==
    /\ raw \in Logs(ExtractChunks, MaxExtract) \cup Logs(BodyChunks, 1)
    /\ idx = 0
    /\ pc = "extract"
    /\ prefer = PREFER_ON_DUP
    /\ rows_all = <<>>
    /\ unique_rows = <<>>
    /\ duplicates = <<>>
    /\ stdout = <<>>
    /\ daily = EmptyCounter
    /\ per_user = EmptyCounter
    /\ files = NoFiles("absent")
    /\ stderr = <<>>
    /\ exit_code = -1
    /\ an = <<>>
    /\ ae = <<>>
    /\ ret = <<>>

SpecExtract == InitExtract /\ [][ExtractNext]_vars

\* dedupe and aggregate on their own
DedupeCall ==
    /\ pc = "dedupe"
    /\ unique_rows' = dedupe(rows_all, prefer).unique
    /\ duplicates' = dedupe(rows_all, prefer).dups
    /\ pc' = "aggregate"
    /\ UNCHANGED <<raw, idx, prefer, rows_all, stdout, daily, per_user, files,
                   stderr, exit_code, an, ae, ret>>

AggregateCall ==
    /\ pc = "aggregate"
    /\ daily' = aggregate(unique_rows).daily
    /\ per_user' = aggregate(unique_rows).per_user
    /\ pc' = "returned"
    /\ UNCHANGED <<raw, idx, prefer, rows_all, unique_rows, duplicates, stdout,
                   files, stderr, exit_code, an, ae, ret>>

InitDedupe ==
    /\ raw = <<>>
    /\ idx = 0
    /\ pc = "dedupe"
    /\ prefer \in {"earliest", "latest"}
    /\ rows_all \in RowLists(MaxRows)
    /\ unique_rows = <<>>
    /\ duplicates = <<>>
    /\ stdout = <<>>
    /\ daily = EmptyCounter
    /\ per_user = EmptyCounter
    /\ files = NoFiles("absent")
    /\ stderr = <<>>
    /\ exit_code = -1
    /\ an = <<>>
    /\ ae = <<>>
    /\ ret = <<>>

DedupeNext == DedupeCall \/ AggregateCall

SpecDedupe == InitDedupe /\ [][DedupeNext]_vars

\* canonical_user on its own
CanonicalUserCall ==
    /\ pc = "canonical_user"
    /\ ret' = canonical_user(an, ae)
    /\ pc' = "returned"
    /\ UNCHANGED <<raw, idx, prefer, rows_all, unique_rows, duplicates, stdout,
                   daily, per_user, files, stderr, exit_code, an, ae>>

InitCanon ==
    /\ raw = <<>>
    /\ idx = 0
    /\ pc = "canonical_user"
    /\ prefer = PREFER_ON_DUP
    /\ rows_all = <<>>
    /\ unique_rows = <<>>
    /\ duplicates = <<>>
    /\ stdout = <<>>
    /\ daily = EmptyCounter
    /\ per_user = EmptyCounter
    /\ files = NoFiles("absent")
    /\ stderr = <<>>
    /\ exit_code = -1
    /\ an \in SeqsUpTo(NameTokens, MaxNameLen)
    /\ ae \in SeqsUpTo(AddrTokens, MaxAddrLen)
    /\ ret = <<>>

CanonNext == CanonicalUserCall

SpecCanon == InitCanon /\ [][CanonNext]_vars

----------------------------------------------------------------------------
(* Properties of dedupe and aggregate, under SpecDedupe *)

\* dedupe has returned
Deduped == pc \in {"aggregate", "returned"}

\* C1: for either policy and every (date, user), the event dedupe keeps is
\* the one of that slot whose authored instant is the earliest (earliest) or
\* the latest (latest), whatever the UTC offsets of the timestamps, and the
\* other events of the slot are duplicates.
C1_WinnerIsChronological ==
    Deduped =>
        \A i \in 1..Len(unique_rows) : \A j \in 1..Len(rows_all) :
            LET u == unique_rows[i]
                r == rows_all[j]
            IN  (r.date = u.date /\ r.user = u.user) =>
                    /\ prefer = "earliest" =>
                           Instant(u.author_iso) <= Instant(r.author_iso)
                    /\ prefer = "latest" =>
                           Instant(u.author_iso) >= Instant(r.author_iso)
                    /\ r # u => r \in Range(duplicates)

\* C2: dedupe of any permutation of the same events gives the same set of
\* unique events and the same set of duplicates, also when events of one
\* slot carry the same authored_at.
C2_OrderIndependent ==
    Deduped =>
        \A p \in [1..Len(rows_all) -> 1..Len(rows_all)] :
            (\A a, b \in 1..Len(rows_all) : p[a] = p[b] => a = b) =>
                LET permuted == [i \in 1..Len(rows_all) |-> rows_all[p[i]]]
                IN  /\ Range(dedupe(permuted, prefer).unique) = Range(unique_rows)
                    /\ Range(dedupe(permuted, prefer).dups) = Range(duplicates)

\* C3: dedupe returns a partition of its input: every input event is exactly
\* once in unique_events or duplicate_events, none in both, none invented,
\* so the two lengths add up to the length of the input (0 + 0 for <<>>).
C3_Partition ==
    Deduped =>
        LET both == unique_rows \o duplicates
        IN  /\ Len(unique_rows) + Len(duplicates) = Len(rows_all)
            /\ \A j \in 1..Len(rows_all) :
                   Cardinality({i \in 1..Len(both) : both[i] = rows_all[j]}) = 1
            /\ Range(both) = Range(rows_all)
            /\ Range(unique_rows) \cap Range(duplicates) = {}

C3_Witness ==
    /\ Deduped
    /\ Len(unique_rows) >= 2
    /\ Len(duplicates) >= 1

\* C4: unique_events holds exactly one event for each (date, user) of the
\* input: no two of its members share the pair, no pair of the input is
\* missing, and every duplicate shares its pair with a unique event.
C4_OnePerSlot ==
    Deduped =>
        /\ \A i, j \in 1..Len(unique_rows) :
               (/\ unique_rows[i].date = unique_rows[j].date
                /\ unique_rows[i].user = unique_rows[j].user) => i = j
        /\ {<<r.date, r.user>> : r \in Range(rows_all)}
               = {<<r.date, r.user>> : r \in Range(unique_rows)}
        /\ \A d \in Range(duplicates) : \E u \in Range(unique_rows) :
               d.date = u.date /\ d.user = u.user

C4_Witness ==
    /\ Deduped
    /\ Len(duplicates) >= 1
    /\ \E i, j \in 1..Len(unique_rows) :
           /\ unique_rows[i].date = unique_rows[j].date
           /\ unique_rows[i].user # unique_rows[j].user

\* C6: aggregate counts the unique events per date and per user: the keys
\* of daily_counts are the dates that occur, each count is the number of
\* unique events of that date or user, both sums are len(unique_events),
\* and both mappings are empty for the empty list.
C6_CountsMatch ==
    pc = "returned" =>
        LET n == Len(unique_rows)
            Total(c) ==
                LET sum[S \in SUBSET DOMAIN c] ==
                        IF S = {} THEN 0
                        ELSE LET k == CHOOSE k \in S : TRUE
                             IN  c[k] + sum[S \ {k}]
                IN  sum[DOMAIN c]
        IN  /\ DOMAIN daily = {unique_rows[i].date : i \in 1..n}
            /\ DOMAIN per_user = {unique_rows[i].user : i \in 1..n}
            /\ \A d \in DOMAIN daily :
                   daily[d] = Cardinality({i \in 1..n : unique_rows[i].date = d})
            /\ \A u \in DOMAIN per_user :
                   per_user[u] = Cardinality({i \in 1..n : unique_rows[i].user = u})
            /\ Total(daily) = n
            /\ Total(per_user) = n
            /\ n = 0 => daily = <<>> /\ per_user = <<>>

C6_Witness ==
    /\ pc = "returned"
    /\ \E d \in DOMAIN daily : daily[d] >= 2
    /\ Cardinality(DOMAIN daily) >= 2
    /\ \E u \in DOMAIN per_user : per_user[u] >= 2

----------------------------------------------------------------------------
(* Properties of canonical_user, under SpecCanon *)

\* C5: canonical_user returns a non-empty string for every author_name and
\* author_address, empty and blank ones and addresses that start with "@"
\* included.
C5_UserNonEmpty == pc = "returned" => ret # <<>>

----------------------------------------------------------------------------
(* Properties of extract_checkins, under SpecExtract *)

\* C7: extract_checkins returns one event for each record whose body has a
\* line "Check-In-Date: YYYY-MM-DD" or whose subject begins with the token
\* check-in, and none for any other record; the events are in the order of
\* their records and carry commit id, author name and address unchanged.
C7_EventsAreTheCheckIns ==
    pc = "dedupe" =>
        LET TrailerLine(b) ==
                \E i, j, e \in 1..Len(b) :
                    /\ i < j /\ j <= e
                    /\ IF i = 1 THEN TRUE ELSE b[i - 1] = "nl"
                    /\ IF e = Len(b) THEN TRUE ELSE b[e + 1] = "nl"
                    /\ b[i] = "K"
                    /\ b[j] \in DateTokens
                    /\ \A k \in (i + 1)..e : k # j => b[k] = "sp"
            CheckInSubject(t) ==
                IF t = <<>> THEN FALSE
                ELSE /\ t[1] \in {"c", "C"}
                     /\ IF Len(t) = 1 THEN TRUE ELSE t[2] \in {"sp", ":"}
            checkins == {k \in 1..Len(raw) :
                            /\ raw[k].nf = 6
                            /\ TrailerLine(raw[k].body) \/ CheckInSubject(raw[k].subj)}
        IN  /\ {rows_all[i].commit : i \in 1..Len(rows_all)} = checkins
            /\ \A i, j \in 1..Len(rows_all) :
                   i < j => rows_all[i].commit < rows_all[j].commit
            /\ \A i \in 1..Len(rows_all) :
                   /\ rows_all[i].commit \in 1..Len(raw)
                   /\ rows_all[i].author_name = raw[rows_all[i].commit].an
                   /\ rows_all[i].author_email = raw[rows_all[i].commit].ae

\* C8: the date of an event is the date of the Check-In-Date trailer line of
\* its commit when the body has one, whatever authored_at is; otherwise it
\* is the calendar day of authored_at in Asia/Tokyo (UTC+9).
C8_TrailerElseTokyoDay ==
    \A n \in {n \in 1..Len(rows_all) : rows_all[n].author_iso.ok} :
        LET c == raw[rows_all[n].commit]
            b == c.body
            TrailerDates ==
                {DateOf(b[j]) : j \in
                    {j \in 1..Len(b) : \E i, e \in 1..Len(b) :
                        /\ i < j /\ j <= e
                        /\ IF i = 1 THEN TRUE ELSE b[i - 1] = "nl"
                        /\ IF e = Len(b) THEN TRUE ELSE b[e + 1] = "nl"
                        /\ b[i] = "K"
                        /\ b[j] \in DateTokens
                        /\ \A k \in (i + 1)..e : k # j => b[k] = "sp"}}
            tokyo == c.aiso.hour - c.aiso.off + 9
        IN  IF TrailerDates # {} THEN rows_all[n].date \in TrailerDates
            ELSE rows_all[n].date =
                     c.aiso.day + (IF tokyo >= 24 THEN 1 ELSE IF tokyo < 0 THEN -1 ELSE 0)

----------------------------------------------------------------------------
(* Properties of a run, under Spec *)

\* C9: duplicates never abort a run.  The error exit is reached only from
\* extract_checkins, at a chunk that raises; once extraction has returned,
\* the warning loop never runs past the duplicates, and at the normal end the
\* run has printed one warning for each duplicate, counted the unique events
\* only and written all five outputs.
C9_DuplicatesNeverAbort ==
    LET slots == {<<r.date, r.user>> : r \in Range(rows_all)}
        losers == Len(rows_all) - Cardinality(slots)
    IN  /\ pc = "failed" =>
               /\ idx < Len(raw)
               /\ \/ raw[idx + 1].nf \notin {0, 6}
                  \/ ~raw[idx + 1].aiso.ok
               /\ stdout = <<>>
        /\ pc \in {"write_attendance", "write_daily", "write_per_user",
                   "write_duplicates", "write_assets", "done"} =>
               /\ Len(stdout) = losers
               /\ \A i \in 1..Len(stdout) :
                      stdout[i][4] = duplicates[i].commit
               /\ DOMAIN daily = {s[1] : s \in slots}
               /\ \A d \in DOMAIN daily :
                      daily[d] = Cardinality({s \in slots : s[1] = d})
               /\ \A u \in DOMAIN per_user :
                      per_user[u] = Cardinality({s \in slots : s[2] = u})
        /\ pc = "done" =>
               /\ exit_code = 0
               /\ stderr = <<>>
               /\ \A f \in FileNames : files[f].state = "written"
               /\ Len(files["attendance.csv"].content) = Cardinality(slots)
               /\ Len(files["duplicates.csv"].content) = losers
               /\ files["daily_counts.json"].content = daily
               /\ files["per_user.json"].content = per_user
        /\ pc = "warn" => Len(stdout) <= Len(duplicates)
        /\ pc \in {"dedupe", "warn"} => exit_code = -1 /\ stderr = <<>>

C9_Witness ==
    /\ pc = "done"
    /\ Len(duplicates) >= 2
    /\ Len(stdout) = Len(duplicates)

\* C10: when the log holds a record that does not split into six fields, or
\* a classified record without trailer whose authored_at is no timestamp, the
\* run never leaves extraction but by the error exit (message on stderr, exit
\* code 1) and writes no output; a file is written only after the extraction of the whole log,
\* dedupe and aggregate have completed.
C10_FailureWritesNothing ==
    LET Raises(c) == c.nf \notin {0, 6} \/ (c.nf = 6 /\ Classified(c) /\ DateRaises(c))
        BadLog == \E k \in 1..Len(raw) : Raises(raw[k])
        Untouched == \A f, g \in FileNames :
                         files[f].state # "written" /\ files[f] = files[g]
    IN  /\ BadLog => pc \in {"extract", "failed"} /\ Untouched
        /\ \A k \in 1..idx : ~Raises(raw[k])
        /\ pc = "failed" =>
               /\ BadLog /\ Untouched
               /\ stderr # <<>> /\ exit_code = 1
        /\ ~Untouched =>
               /\ idx = Len(raw)
               /\ pc \in {"write_daily", "write_per_user",
                          "write_duplicates", "write_assets", "done"}
               /\ unique_rows = dedupe(rows_all, prefer).unique
               /\ daily = aggregate(unique_rows).daily

C10_Witness ==
    /\ pc = "failed"
    /\ idx >= 1
    /\ \E k \in 1..idx : raw[k].nf = 6 /\ Classified(raw[k])
    /\ \A f \in FileNames : files[f].state = "old"

====
